---- MODULE Spec2Model ----
(***************************************************************************)
(* Model of vms.SetupSubnet (src/vms/subnet.go): the orchestration of a    *)
(* subnet bootstrap over a fleet of nodes.  The main goroutine walks the   *)
(* stages of SetupSubnet; each fleet-wide wait is an errgroup with one     *)
(* worker goroutine per node of args.allNodes.  The nodes' answers, the    *)
(* network handle's answers and the cancellation of the caller's context   *)
(* are the environment and are chosen nondeterministically.                *)
(***************************************************************************)
EXTENDS Naturals, Integers, Sequences, FiniteSets, TLC

\* Number of node names the harness knows about (size of the largest fleet).
NumNodes == 2
\* Largest number of status queries one poll loop issues on one node in one
\* wait: the last permitted query gets a final answer from the node.
MaxPolls == 2

Nodes == 1..NumNodes
NoNode == 0

VARIABLES
    netNodes,            \* network: the map GetAllNodes would return (its keys)
    netNames,            \* network: the list GetNodeNames would return
    subnetIDValid,       \* input: vm.SubnetID parses as an ids.ID
    ctxDoneAtCall,       \* input: ctx was already done when SetupSubnet was called
    ctxDone,             \* the caller's ctx is cancelled / past its deadline
    pc,                  \* position of the goroutine running SetupSubnet
    ret,                 \* what SetupSubnet returned ("none" while running)
    returned,            \* results of the stages that returned, in order
    allNodes,            \* args.allNodes (keys)
    txNode,              \* the node all transactions are issued on
    cur,                 \* transaction handle / chain predicate being awaited
    gErr,                \* errgroup: first non-nil error a worker returned
    wpos,                \* per node: position of the worker goroutine
    polls,               \* per node: status queries issued in the current wait
    late,                \* per node: of those, issued with the wait's ctx done
    statusCheckTimeout,  \* ensureValidating's shared poll interval
    calls,               \* calls issued on the issuing node, per operation
    valOrder,            \* AddSubnetValidator submissions, in order (node ids)
    confirmed,           \* per wait: nodes observed reporting its success value
    queriedOn,           \* per wait: nodes a status query was issued on
    bootErrs,            \* nodes whose IsBootstrapped query returned an error
    cancelWait,          \* the wait SetupSubnet was in when ctx was cancelled
    cancelInFlight,      \* a worker of that wait had not returned at that time
    listResp,            \* isSubnetInList: what GetSubnets answered ("none" outside)
    genesis,             \* createBlockchain: outcome of os.ReadFile(vm.Genesis)
    interval             \* per ensureValidating worker: duration its sleep was armed with

vars == <<netNodes, netNames, subnetIDValid, ctxDoneAtCall, ctxDone, pc, ret, returned,
          allNodes, txNode, cur, gErr, wpos, polls, late, statusCheckTimeout,
          calls, valOrder, confirmed, queriedOn, bootErrs, cancelWait, cancelInFlight,
          listResp, genesis, interval>>

envVars  == <<netNodes, netNames, subnetIDValid, ctxDoneAtCall>>
cancelVars == <<cancelWait, cancelInFlight>>
grpVars  == <<gErr, wpos, polls, late>>
histVars == <<calls, valOrder, confirmed, queriedOn, bootErrs>>
localVars == <<listResp, genesis, interval>>

\* ---------------------------------------------------------------- names

SubnetTx     == <<"subnet", NoNode>>
ValTx(n)     == <<"val", n>>
ChainTx      == <<"chain", NoNode>>
ValidatingCk == <<"validating", NoNode>>
BootstrapCk  == <<"bootstrap", NoNode>>
NoWait       == <<"none", NoNode>>

WaitIds == {SubnetTx, ChainTx, ValidatingCk, BootstrapCk} \cup {ValTx(n) : n \in Nodes}

Ops == {"CreateUser", "ImportKey", "CreateSubnet", "GetSubnets", "CreateBlockchain"}

\* Stages of SetupSubnet, in the order of its body.
StageNewArgs    == "newArgs"
StageSubnet     == "createSubnet"
StageList       == "isSubnetInList"
StageValidators == "addAllAsValidators"
StageChain      == "createBlockchain"
StageValidating == "ensureValidating"
StageBootstrap  == "ensureBootstrapped"

StageOrder == <<StageNewArgs, StageSubnet, StageList, StageValidators,
                StageChain, StageValidating, StageBootstrap>>

Final == {"nil", "errQuery", "errCtx"}

TxStatuses == {"Committed", "Aborted", "Processing", "Dropped", "Unknown"}
ChainStatuses == {"Validating", "Created", "Preferred", "Syncing", "UnknownChain"}

\* Lists GetNodeNames may return; newArgs reads the length and the head only.
NameLists == {<< >>} \cup {<<n>> : n \in Nodes}

Running == [out |-> "running", stage |-> "", err |-> ""]
RetNil  == [out |-> "nil", stage |-> "", err |-> ""]
RetErr(stage, e) == [out |-> "error", stage |-> stage, err |-> e]
RetPanic(stage)  == [out |-> "panic", stage |-> stage, err |-> "nil dereference"]

Range(s) == {s[i] : i \in 1..Len(s)}

\* ---------------------------------------------------------------- Init

Init ==
    /\ netNodes \in SUBSET Nodes
    /\ netNames \in NameLists
    /\ subnetIDValid \in BOOLEAN
    /\ ctxDone \in BOOLEAN
    /\ ctxDoneAtCall = ctxDone
    /\ pc = "start"
    /\ ret = Running
    /\ returned = << >>
    /\ allNodes = {}
    /\ txNode = NoNode
    /\ cur = NoWait
    /\ gErr = "none"
    /\ wpos = [n \in Nodes |-> "idle"]
    /\ polls = [n \in Nodes |-> 0]
    /\ late = [n \in Nodes |-> 0]
    /\ statusCheckTimeout = "unset"
    /\ calls = [o \in Ops |-> 0]
    /\ valOrder = << >>
    /\ confirmed = [w \in WaitIds |-> {}]
    /\ queriedOn = [w \in WaitIds |-> {}]
    /\ bootErrs = {}
    /\ cancelWait = NoWait
    /\ cancelInFlight = FALSE
    /\ listResp = "none"
    /\ genesis = "unread"
    /\ interval = [n \in Nodes |-> "none"]

\* ------------------------------------------------- SetupSubnet's returns

\* Variant: finalizeBlockchain goes on to ensureBootstrapped after
\* ensureValidating's error instead of returning it.
FailButFinalizeGoesOn(stage, e) ==
    /\ pc' = IF stage = StageValidating THEN "ensureBootstrapped" ELSE "done"
    /\ ret' = RetErr(stage, e)
    /\ returned' = Append(returned, <<stage, "err">>)

\* A stage returned an error: SetupSubnet wraps it and returns at once.
Fail(stage, e) ==
    /\ pc' = "done"
    /\ ret' = RetErr(stage, e)
    /\ returned' = Append(returned, <<stage, "err">>)

\* A stage returned nil: SetupSubnet goes on with the statement at `next`.
StageOK(stage, next) ==
    /\ pc' = next
    /\ ret' = ret
    /\ returned' = Append(returned, <<stage, "ok">>)

Stay(next) ==
    /\ pc' = next
    /\ UNCHANGED <<ret, returned>>

Call(op) == calls' = [calls EXCEPT ![op] = @ + 1]

\* ---------------------------------------------------------------- newArgs

NewArgsGetAllNodes ==
    /\ pc = "start"
    /\ \/ /\ allNodes' = netNodes
          /\ Stay("getNodeNames")
       \/ /\ Fail(StageNewArgs, "ErrStopped")
          /\ UNCHANGED allNodes
    /\ UNCHANGED <<envVars, cancelVars, localVars, ctxDone, txNode, cur, grpVars, statusCheckTimeout, histVars>>

\* Variant: the length of the name list is not checked before its head is used.
NewArgsGetNodeNamesNoCheck ==
    /\ pc = "getNodeNames"
    /\ \/ /\ Fail(StageNewArgs, "ErrStopped")
          /\ UNCHANGED txNode
       \/ /\ txNode' = IF Len(netNames) = 0 THEN NoNode ELSE netNames[1]
          /\ Stay("createUser")
    /\ UNCHANGED <<envVars, cancelVars, localVars, ctxDone, allNodes, cur, grpVars, statusCheckTimeout, histVars>>

NewArgsGetNodeNames ==
    /\ pc = "getNodeNames"
    /\ \/ /\ Fail(StageNewArgs, "ErrStopped")
          /\ UNCHANGED txNode
       \/ /\ Len(netNames) = 0
          /\ Fail(StageNewArgs, "errNoNodeNames")
          /\ UNCHANGED txNode
       \/ /\ Len(netNames) # 0
          /\ txNode' = netNames[1]
          /\ IF netNames[1] \in allNodes
               THEN Stay("createUser")
               ELSE \* allNodes[name] is the nil Node: GetAPIClient panics
                    /\ pc' = "done"
                    /\ ret' = RetPanic(StageNewArgs)
                    /\ UNCHANGED returned
    /\ UNCHANGED <<envVars, cancelVars, localVars, ctxDone, allNodes, cur, grpVars, statusCheckTimeout, histVars>>

NewArgsCreateUser ==
    /\ pc = "createUser"
    /\ Call("CreateUser")
    /\ \/ Stay("importKey")
       \/ Fail(StageNewArgs, "errCreateUser")
    /\ UNCHANGED <<envVars, cancelVars, localVars, ctxDone, allNodes, txNode, cur, grpVars, statusCheckTimeout,
                   valOrder, confirmed, queriedOn, bootErrs>>

NewArgsImportKey ==
    /\ pc = "importKey"
    /\ Call("ImportKey")
    /\ \/ Stay("parseSubnetID")
       \/ Fail(StageNewArgs, "errImportKey")
    /\ UNCHANGED <<envVars, cancelVars, localVars, ctxDone, allNodes, txNode, cur, grpVars, statusCheckTimeout,
                   valOrder, confirmed, queriedOn, bootErrs>>

NewArgsParseSubnetID ==
    /\ pc = "parseSubnetID"
    /\ IF subnetIDValid
         THEN StageOK(StageNewArgs, "createSubnet")
         ELSE Fail(StageNewArgs, "errSubnetID")
    /\ UNCHANGED <<envVars, cancelVars, localVars, ctxDone, allNodes, txNode, cur, grpVars, statusCheckTimeout, histVars>>

\* ------------------------------------------------ errgroup and its workers

\* ctx of errgroup.WithContext(tctx): done when tctx is done or when a worker
\* has returned a non-nil error (the group's cancel).
GroupCtxDone == ctxDone \/ gErr # "none"

\* g, ctx := errgroup.WithContext(tctx), then g.Go(...) for every node of
\* args.allNodes: each worker starts at the top of its loop, at the select.
StartGroup(wait) ==
    /\ cur' = wait
    /\ gErr' = "none"
    /\ wpos' = [n \in Nodes |-> IF n \in allNodes THEN "select" ELSE "idle"]
    /\ polls' = [n \in Nodes |-> 0]
    /\ late' = [n \in Nodes |-> 0]

\* Variant: the group keeps the last non-nil error a worker returned.
WorkerReturnLastErrorWins(n, e) ==
    /\ wpos' = [wpos EXCEPT ![n] = e]
    /\ gErr' = IF e # "nil" THEN e ELSE gErr

\* A worker's function returns e: errgroup keeps the first non-nil error.
WorkerReturn(n, e) ==
    /\ wpos' = [wpos EXCEPT ![n] = e]
    /\ gErr' = IF e # "nil" /\ gErr = "none" THEN e ELSE gErr

\* Variant: a cancelled worker returns nil instead of ctx.Err().
WorkerCtxDoneReturnsNil(n) ==
    /\ wpos[n] = "select"
    /\ GroupCtxDone
    /\ WorkerReturn(n, "nil")
    /\ UNCHANGED <<polls, late, confirmed, queriedOn, bootErrs, statusCheckTimeout>>

\* select: case <-ctx.Done(): return ctx.Err()
WorkerCtxDone(n) ==
    /\ wpos[n] = "select"
    /\ GroupCtxDone
    /\ WorkerReturn(n, "errCtx")
    /\ UNCHANGED <<polls, late, confirmed, queriedOn, bootErrs, statusCheckTimeout>>

\* Variant: the loop sleeps without selecting on ctx.Done().
WorkerTimerIgnoresCtx(n) ==
    /\ wpos[n] = "select"
    /\ wpos' = [wpos EXCEPT ![n] = "query"]
    /\ UNCHANGED <<gErr, polls, late, confirmed, queriedOn, bootErrs, statusCheckTimeout>>

\* Variant: the select has no time.After case, a worker wakes on ctx.Done() only.
WorkerSelectWithoutTimer(n) ==
    /\ wpos[n] = "select"
    /\ FALSE
    /\ UNCHANGED <<gErr, wpos, polls, late, confirmed, queriedOn, bootErrs, statusCheckTimeout>>

\* select: case <-time.After(...): the worker goes on to its query
WorkerTimer(n) ==
    /\ wpos[n] = "select"
    /\ ~GroupCtxDone
    /\ wpos' = [wpos EXCEPT ![n] = "query"]
    /\ UNCHANGED <<gErr, polls, late, confirmed, queriedOn, bootErrs, statusCheckTimeout>>

\* One status query is issued on node n for the current wait.
CountQuery(n) ==
    /\ polls' = [polls EXCEPT ![n] = @ + 1]
    /\ late' = [late EXCEPT ![n] = IF GroupCtxDone THEN @ + 1 ELSE @]
    /\ queriedOn' = [queriedOn EXCEPT ![cur] = @ \cup {n}]

Confirm(n) == confirmed' = [confirmed EXCEPT ![cur] = @ \cup {n}]

\* The node may answer "not yet" only while the poll bound is not reached.
MayPend(n) == polls[n] + 1 < MaxPolls

\* Variant: Dropped and Aborted are terminal, the worker fails on them.
TxStatusAnswerTerminal(n, status) ==
    IF status = "Committed"
      THEN /\ WorkerReturn(n, "nil")
           /\ Confirm(n)
      ELSE IF status \in {"Dropped", "Aborted"}
      THEN /\ WorkerReturn(n, "errQuery")
           /\ UNCHANGED confirmed
      ELSE /\ MayPend(n)
           /\ wpos' = [wpos EXCEPT ![n] = "select"]
           /\ UNCHANGED <<gErr, confirmed>>

\* if status == platformvm.Committed { return nil }, else the loop goes round
TxStatusAnswer(n, status) ==
    IF status = "Committed"
      THEN /\ WorkerReturn(n, "nil")
           /\ Confirm(n)
      ELSE /\ MayPend(n)
           /\ wpos' = [wpos EXCEPT ![n] = "select"]
           /\ UNCHANGED <<gErr, confirmed>>

\* client.GetTxStatus(tx, true) and the two ifs after it
TxStatusQuery(n) ==
    /\ wpos[n] = "query"
    /\ CountQuery(n)
    /\ \/ /\ WorkerReturn(n, "errQuery")
          /\ UNCHANGED confirmed
       \/ \E status \in TxStatuses : TxStatusAnswer(n, status)
    /\ UNCHANGED <<bootErrs, statusCheckTimeout>>

\* Variant: the wait returns with the first worker that returns.
AnyReturned == \E n \in allNodes : wpos[n] \in Final

\* Variant: the wait returns as soon as an error is recorded, without joining.
AllReturnedOrFailed ==
    \/ \A n \in allNodes : wpos[n] \in Final
    \/ gErr # "none"

\* g.Wait() may return: every worker's function has returned.
AllReturned == \A n \in allNodes : wpos[n] \in Final

\* ---------------------------------------------------------------- createSubnet

\* Variant: createSubnet looks at ctx before it submits.
CreateSubnetSubmitGated ==
    /\ pc = "createSubnet"
    /\ IF ctxDone
         THEN /\ Fail(StageSubnet, "errCtx")
              /\ UNCHANGED <<calls, cur, grpVars>>
         ELSE /\ Call("CreateSubnet")
              /\ \/ /\ StartGroup(SubnetTx)
                    /\ Stay("subnetWait")
                 \/ /\ Fail(StageSubnet, "errSubmit")
                    /\ UNCHANGED <<cur, grpVars>>
    /\ UNCHANGED <<envVars, cancelVars, localVars, ctxDone, allNodes, txNode, statusCheckTimeout,
                   valOrder, confirmed, queriedOn, bootErrs>>

CreateSubnetSubmit ==
    /\ pc = "createSubnet"
    /\ Call("CreateSubnet")
    /\ \/ /\ StartGroup(SubnetTx)
          /\ Stay("subnetWait")
       \/ /\ Fail(StageSubnet, "errSubmit")
          /\ UNCHANGED <<cur, grpVars>>
    /\ UNCHANGED <<envVars, cancelVars, localVars, ctxDone, allNodes, txNode, statusCheckTimeout,
                   valOrder, confirmed, queriedOn, bootErrs>>

CreateSubnetWorker(n) ==
    /\ pc = "subnetWait"
    /\ n \in allNodes
    /\ \/ WorkerCtxDone(n)
       \/ WorkerTimer(n)
       \/ TxStatusQuery(n)
    /\ UNCHANGED <<envVars, cancelVars, localVars, ctxDone, pc, ret, returned, allNodes, txNode, cur, calls, valOrder>>

\* Variant: a failed wait sends the create-subnet transaction again.
CreateSubnetWaitResubmits ==
    /\ pc = "subnetWait"
    /\ AllReturned
    /\ IF gErr = "none"
         THEN StageOK(StageSubnet, "isSubnetInList")
         ELSE Stay("createSubnet")
    /\ UNCHANGED <<envVars, cancelVars, localVars, ctxDone, allNodes, txNode, cur, grpVars, statusCheckTimeout, histVars>>

CreateSubnetWait ==
    /\ pc = "subnetWait"
    /\ AllReturned
    /\ IF gErr = "none"
         THEN StageOK(StageSubnet, "isSubnetInList")
         ELSE Fail(StageSubnet, gErr)
    /\ UNCHANGED <<envVars, cancelVars, localVars, ctxDone, allNodes, txNode, cur, grpVars, statusCheckTimeout, histVars>>

\* ---------------------------------------------------------------- isSubnetInList

\* txPChainClient.GetSubnets([]ids.ID{rSubnetID}): the node answers with a
\* list that holds the subnet, a list that does not, or an error.
IsSubnetInListGetSubnets ==
    /\ pc = "isSubnetInList"
    /\ Call("GetSubnets")
    /\ listResp' \in {"listed", "unlisted", "error"}
    /\ Stay("listCheck")
    /\ UNCHANGED <<envVars, cancelVars, genesis, interval, ctxDone, allNodes, txNode, cur, grpVars,
                   statusCheckTimeout, valOrder, confirmed, queriedOn, bootErrs>>

\* Variant: the returned list is searched for rSubnetID.
IsSubnetInListSearchesList ==
    /\ pc = "listCheck"
    /\ listResp' = "none"
    /\ IF listResp \in {"error", "unlisted"}
         THEN Fail(StageList, "errList")
         ELSE StageOK(StageList, "addValidator")
    /\ UNCHANGED <<envVars, cancelVars, genesis, interval, ctxDone, allNodes, txNode, cur, grpVars,
                   statusCheckTimeout, histVars>>

\* GetSubnets' list is dropped (`_`): only its error is looked at.
IsSubnetInList ==
    /\ pc = "listCheck"
    /\ listResp' = "none"
    /\ IF listResp = "error"
         THEN Fail(StageList, "errList")
         ELSE StageOK(StageList, "addValidator")
    /\ UNCHANGED <<envVars, cancelVars, genesis, interval, ctxDone, allNodes, txNode, cur, grpVars,
                   statusCheckTimeout, histVars>>

\* ---------------------------------------------------------------- addAllAsValidators

\* Variant: all registrations are submitted first and only the last is awaited.
AddValidatorSubmitAllFirst ==
    /\ pc = "addValidator"
    /\ \E n \in allNodes \ Range(valOrder) :
          /\ valOrder' = Append(valOrder, n)
          /\ \/ /\ allNodes \ Range(valOrder) = {n}
                /\ StartGroup(ValTx(n))
                /\ Stay("validatorWait")
             \/ /\ allNodes \ Range(valOrder) # {n}
                /\ Stay("addValidator")
                /\ UNCHANGED <<cur, grpVars>>
             \/ /\ Fail(StageValidators, "errSubmit")
                /\ UNCHANGED <<cur, grpVars>>
    /\ UNCHANGED <<envVars, cancelVars, localVars, ctxDone, allNodes, txNode, statusCheckTimeout,
                   calls, confirmed, queriedOn, bootErrs>>

\* One iteration of the range over args.allNodes: a node not yet visited.
AddValidatorSubmit ==
    /\ pc = "addValidator"
    /\ \E n \in allNodes \ Range(valOrder) :
          /\ valOrder' = Append(valOrder, n)
          /\ \/ /\ StartGroup(ValTx(n))
                /\ Stay("validatorWait")
             \/ /\ Fail(StageValidators, "errSubmit")
                /\ UNCHANGED <<cur, grpVars>>
    /\ UNCHANGED <<envVars, cancelVars, localVars, ctxDone, allNodes, txNode, statusCheckTimeout,
                   calls, confirmed, queriedOn, bootErrs>>

AddValidatorWorker(n) ==
    /\ pc = "validatorWait"
    /\ n \in allNodes
    /\ \/ WorkerCtxDone(n)
       \/ WorkerTimer(n)
       \/ TxStatusQuery(n)
    /\ UNCHANGED <<envVars, cancelVars, localVars, ctxDone, pc, ret, returned, allNodes, txNode, cur, calls, valOrder>>

AddValidatorWait ==
    /\ pc = "validatorWait"
    /\ AllReturned
    /\ IF gErr = "none"
         THEN Stay("addValidator")
         ELSE Fail(StageValidators, gErr)
    /\ UNCHANGED <<envVars, cancelVars, localVars, ctxDone, allNodes, txNode, cur, grpVars, statusCheckTimeout, histVars>>

\* The range is exhausted: addAllAsValidators returns nil.
AddValidatorsDone ==
    /\ pc = "addValidator"
    /\ allNodes \ Range(valOrder) = {}
    /\ StageOK(StageValidators, "readGenesis")
    /\ UNCHANGED <<envVars, cancelVars, localVars, ctxDone, allNodes, txNode, cur, grpVars, statusCheckTimeout, histVars>>

\* ---------------------------------------------------------------- createBlockchain

\* Variant: os.ReadFile's error is dropped and the submission goes on.
CreateBlockchainReadGenesisErrDropped ==
    /\ pc = "readGenesis"
    /\ genesis' \in {"read", "unreadable"}
    /\ Stay("createBlockchain")
    /\ UNCHANGED <<envVars, cancelVars, listResp, interval, ctxDone, allNodes, txNode, cur, grpVars,
                   statusCheckTimeout, histVars>>

\* genesis, err := os.ReadFile(vm.Genesis)
CreateBlockchainReadGenesis ==
    /\ pc = "readGenesis"
    /\ \/ /\ genesis' = "read"
          /\ Stay("createBlockchain")
       \/ /\ genesis' = "unreadable"
          /\ Fail(StageChain, "errIO")
    /\ UNCHANGED <<envVars, cancelVars, listResp, interval, ctxDone, allNodes, txNode, cur, grpVars, statusCheckTimeout, histVars>>

CreateBlockchainSubmit ==
    /\ pc = "createBlockchain"
    /\ Call("CreateBlockchain")
    /\ \/ /\ cur' = ChainTx
          /\ wpos' = [n \in Nodes |-> "idle"]
          /\ polls' = [n \in Nodes |-> 0]
          /\ late' = [n \in Nodes |-> 0]
          /\ Stay("chainSelect")
       \/ /\ Fail(StageChain, "errSubmit")
          /\ UNCHANGED <<cur, wpos, polls, late>>
    /\ UNCHANGED <<envVars, cancelVars, localVars, ctxDone, allNodes, txNode, gErr, statusCheckTimeout,
                   valOrder, confirmed, queriedOn, bootErrs>>

\* select: case <-ctx.Done(): return ids.Empty, ctx.Err()
CreateBlockchainCtxDone ==
    /\ pc = "chainSelect"
    /\ ctxDone
    /\ Fail(StageChain, "errCtx")
    /\ UNCHANGED <<envVars, cancelVars, localVars, ctxDone, allNodes, txNode, cur, grpVars, statusCheckTimeout, histVars>>

\* Variant: the loop gives up after its first poll came back pending.
CreateBlockchainTimerBounded ==
    /\ pc = "chainSelect"
    /\ ~ctxDone
    /\ IF polls[txNode] >= 1
         THEN Fail(StageChain, "errTimeout")
         ELSE Stay("chainQuery")
    /\ UNCHANGED <<envVars, cancelVars, localVars, ctxDone, allNodes, txNode, cur, grpVars, statusCheckTimeout, histVars>>

\* select: case <-time.After(apiRetryFreq)
CreateBlockchainTimer ==
    /\ pc = "chainSelect"
    /\ ~ctxDone
    /\ Stay("chainQuery")
    /\ UNCHANGED <<envVars, cancelVars, localVars, ctxDone, allNodes, txNode, cur, grpVars, statusCheckTimeout, histVars>>

\* args.txPChainClient.GetTxStatus(txID, true): the issuing node only
CreateBlockchainQuery ==
    /\ pc = "chainQuery"
    /\ polls' = [polls EXCEPT ![txNode] = @ + 1]
    /\ late' = [late EXCEPT ![txNode] = IF ctxDone THEN @ + 1 ELSE @]
    /\ queriedOn' = [queriedOn EXCEPT ![ChainTx] = @ \cup {txNode}]
    /\ \/ /\ Fail(StageChain, "errQuery")
          /\ UNCHANGED confirmed
       \/ \E status \in TxStatuses :
             IF status = "Committed"
               THEN /\ StageOK(StageChain, "ensureValidating")
                    /\ confirmed' = [confirmed EXCEPT ![ChainTx] = @ \cup {txNode}]
               ELSE /\ MayPend(txNode)
                    /\ Stay("chainSelect")
                    /\ UNCHANGED confirmed
    /\ UNCHANGED <<envVars, cancelVars, localVars, ctxDone, allNodes, txNode, cur, gErr, wpos, statusCheckTimeout,
                   calls, valOrder, bootErrs>>

\* ---------------------------------------------------------------- ensureValidating

EnsureValidatingStart ==
    /\ pc = "ensureValidating"
    /\ statusCheckTimeout' = "longTimeout"
    /\ interval' = [n \in Nodes |-> IF n \in allNodes THEN "longTimeout" ELSE "none"]
    /\ StartGroup(ValidatingCk)
    /\ Stay("validatingWait")
    /\ UNCHANGED <<envVars, cancelVars, listResp, genesis, ctxDone, allNodes, txNode, histVars>>

\* time.After(statusCheckTimeout) at the top of the next round: the read of
\* statusCheckTimeout is not ordered with the other workers' write of it
\* (no lock, no atomic), so it yields the value last written or the one the
\* variable was initialised with.
ArmSleep(n) ==
    \E d \in {statusCheckTimeout, "longTimeout"} :
       interval' = [interval EXCEPT ![n] = d]

\* The worker's function returned: its timer is gone.
Disarm(n) == interval' = [interval EXCEPT ![n] = "none"]

\* nClient.GetBlockchainStatus(blockchainID) and the two ifs after it
BlockchainStatusQuery(n) ==
    /\ wpos[n] = "query"
    /\ CountQuery(n)
    /\ \/ /\ WorkerReturn(n, "errQuery")
          /\ Disarm(n)
          /\ UNCHANGED <<confirmed, statusCheckTimeout>>
       \/ \E status \in ChainStatuses :
             IF status = "Validating"
               THEN /\ statusCheckTimeout' = "apiRetryFreq"
                    /\ WorkerReturn(n, "nil")
                    /\ Disarm(n)
                    /\ Confirm(n)
               ELSE /\ MayPend(n)
                    /\ wpos' = [wpos EXCEPT ![n] = "select"]
                    /\ ArmSleep(n)
                    /\ UNCHANGED <<gErr, confirmed, statusCheckTimeout>>
    /\ UNCHANGED bootErrs

EnsureValidatingWorker(n) ==
    /\ pc = "validatingWait"
    /\ n \in allNodes
    /\ \/ WorkerCtxDone(n) /\ Disarm(n)
       \/ WorkerTimer(n) /\ UNCHANGED interval
       \/ BlockchainStatusQuery(n)
    /\ UNCHANGED <<envVars, cancelVars, listResp, genesis, ctxDone, pc, ret, returned, allNodes, txNode, cur,
                   calls, valOrder>>

EnsureValidatingWait ==
    /\ pc = "validatingWait"
    /\ AllReturned
    /\ IF gErr = "none"
         THEN StageOK(StageValidating, "ensureBootstrapped")
         ELSE Fail(StageValidating, gErr)
    /\ UNCHANGED <<envVars, cancelVars, localVars, ctxDone, allNodes, txNode, cur, grpVars, statusCheckTimeout, histVars>>

\* ---------------------------------------------------------------- ensureBootstrapped

EnsureBootstrappedStart ==
    /\ pc = "ensureBootstrapped"
    /\ StartGroup(BootstrapCk)
    /\ Stay("bootstrapWait")
    /\ UNCHANGED <<envVars, cancelVars, localVars, ctxDone, allNodes, txNode, statusCheckTimeout, histVars>>

\* Variant: an IsBootstrapped error is returned by the worker.
IsBootstrappedQueryHardError(n) ==
    /\ wpos[n] = "query"
    /\ CountQuery(n)
    /\ \E resp \in {"true", "false", "error"} :
          CASE resp = "true" ->
                 /\ WorkerReturn(n, "nil")
                 /\ Confirm(n)
                 /\ UNCHANGED bootErrs
            [] resp = "error" ->
                 /\ WorkerReturn(n, "errQuery")
                 /\ bootErrs' = bootErrs \cup {n}
                 /\ UNCHANGED confirmed
            [] OTHER ->
                 /\ MayPend(n)
                 /\ wpos' = [wpos EXCEPT ![n] = "select"]
                 /\ UNCHANGED <<gErr, confirmed, bootErrs>>
    /\ UNCHANGED statusCheckTimeout

\* bootstrapped, _ := nClient.IsBootstrapped(blockchainID): the error is dropped
\* and the false that comes with it reads as "not yet".
IsBootstrappedQuery(n) ==
    /\ wpos[n] = "query"
    /\ CountQuery(n)
    /\ \E resp \in {"true", "false", "error"} :
          IF resp = "true"
            THEN /\ WorkerReturn(n, "nil")
                 /\ Confirm(n)
                 /\ UNCHANGED bootErrs
            ELSE /\ MayPend(n)
                 /\ wpos' = [wpos EXCEPT ![n] = "select"]
                 /\ bootErrs' = IF resp = "error" THEN bootErrs \cup {n} ELSE bootErrs
                 /\ UNCHANGED <<gErr, confirmed>>
    /\ UNCHANGED statusCheckTimeout

EnsureBootstrappedWorker(n) ==
    /\ pc = "bootstrapWait"
    /\ n \in allNodes
    /\ \/ WorkerCtxDone(n)
       \/ WorkerTimer(n)
       \/ IsBootstrappedQuery(n)
    /\ UNCHANGED <<envVars, cancelVars, localVars, ctxDone, pc, ret, returned, allNodes, txNode, cur, calls, valOrder>>

\* finalizeBlockchain returns nil after the endpoint lines, and so does SetupSubnet.
EnsureBootstrappedWait ==
    /\ pc = "bootstrapWait"
    /\ AllReturned
    /\ IF gErr = "none"
         THEN /\ pc' = "done"
              /\ ret' = RetNil
              /\ returned' = Append(returned, <<StageBootstrap, "ok">>)
         ELSE Fail(StageBootstrap, gErr)
    /\ UNCHANGED <<envVars, cancelVars, localVars, ctxDone, allNodes, txNode, cur, grpVars, statusCheckTimeout, histVars>>

\* ---------------------------------------------------------------- the caller

WaitPcs == {"subnetWait", "validatorWait", "chainSelect", "chainQuery",
            "validatingWait", "bootstrapWait"}

\* A wait is in flight: a worker of the current errgroup, or createBlockchain's
\* own poll loop, has not returned.
InFlight ==
    \/ /\ pc \in {"subnetWait", "validatorWait", "validatingWait", "bootstrapWait"}
       /\ \E n \in allNodes : wpos[n] \notin Final
    \/ pc \in {"chainSelect", "chainQuery"}

\* The caller cancels ctx, or its deadline passes, while SetupSubnet runs.
Cancel ==
    /\ ~ctxDone
    /\ pc # "done"
    /\ ctxDone' = TRUE
    /\ cancelWait' = IF pc \in WaitPcs THEN cur ELSE NoWait
    /\ cancelInFlight' = InFlight
    /\ UNCHANGED <<envVars, localVars, pc, ret, returned, allNodes, txNode, cur, grpVars,
                   statusCheckTimeout, histVars>>

Next ==
    \/ NewArgsGetAllNodes
    \/ NewArgsGetNodeNames
    \/ NewArgsCreateUser
    \/ NewArgsImportKey
    \/ NewArgsParseSubnetID
    \/ CreateSubnetSubmit
    \/ \E n \in Nodes : CreateSubnetWorker(n)
    \/ CreateSubnetWait
    \/ IsSubnetInListGetSubnets
    \/ IsSubnetInList
    \/ AddValidatorSubmit
    \/ \E n \in Nodes : AddValidatorWorker(n)
    \/ AddValidatorWait
    \/ AddValidatorsDone
    \/ CreateBlockchainReadGenesis
    \/ CreateBlockchainSubmit
    \/ CreateBlockchainCtxDone
    \/ CreateBlockchainTimer
    \/ CreateBlockchainQuery
    \/ EnsureValidatingStart
    \/ \E n \in Nodes : EnsureValidatingWorker(n)
    \/ EnsureValidatingWait
    \/ EnsureBootstrappedStart
    \/ \E n \in Nodes : EnsureBootstrappedWorker(n)
    \/ EnsureBootstrappedWait
    \/ Cancel

Spec == Init /\ [][Next]_vars

\* ---------------------------------------------------------------- converging runs

\* Every submission is accepted and no status query returns an error.
AcceptedAndAnswered ==
    /\ ret.err \notin {"errSubmit", "errQuery"}
    /\ \A n \in Nodes : wpos[n] # "errQuery"

\* The steps of the goroutine that runs SetupSubnet, ctx never being cancelled.
MainLive ==
    \/ NewArgsGetAllNodes
    \/ NewArgsGetNodeNames
    \/ NewArgsCreateUser
    \/ NewArgsImportKey
    \/ NewArgsParseSubnetID
    \/ CreateSubnetSubmit /\ AcceptedAndAnswered'
    \/ CreateSubnetWait
    \/ IsSubnetInListGetSubnets
    \/ IsSubnetInList
    \/ AddValidatorSubmit /\ AcceptedAndAnswered'
    \/ AddValidatorWait
    \/ AddValidatorsDone
    \/ CreateBlockchainReadGenesis
    \/ CreateBlockchainSubmit /\ AcceptedAndAnswered'
    \/ CreateBlockchainTimer
    \/ CreateBlockchainQuery /\ AcceptedAndAnswered'
    \/ EnsureValidatingStart
    \/ EnsureValidatingWait
    \/ EnsureBootstrappedStart
    \/ EnsureBootstrappedWait

\* The steps of the worker goroutine of node n, in whichever wait is running.
WorkerLive(n) ==
    \/ CreateSubnetWorker(n) /\ AcceptedAndAnswered'
    \/ AddValidatorWorker(n) /\ AcceptedAndAnswered'
    \/ EnsureValidatingWorker(n) /\ AcceptedAndAnswered'
    \/ EnsureBootstrappedWorker(n)

InitLive == Init /\ ~ctxDone

NextLive == MainLive \/ \E n \in Nodes : WorkerLive(n)

\* The Go scheduler runs every goroutine that can take a step: SetupSubnet's own
\* and each worker's. The nodes' convergence is the poll bound: the answer to a
\* node's MaxPolls-th query is the final one.
SpecLive ==
    /\ InitLive
    /\ [][NextLive]_vars
    /\ WF_vars(MainLive)
    /\ \A n \in Nodes : WF_vars(WorkerLive(n))

\* ================================================================ properties

StageOfWait(w) ==
    CASE w[1] = "subnet"     -> StageSubnet
      [] w[1] = "val"        -> StageValidators
      [] w[1] = "chain"      -> StageChain
      [] w[1] = "validating" -> StageValidating
      [] w[1] = "bootstrap"  -> StageBootstrap
      [] OTHER               -> "none"

FleetWaitPcs == {"subnetWait", "validatorWait", "validatingWait", "bootstrapWait"}

NoNodeCalls ==
    /\ \A o \in Ops : calls[o] = 0
    /\ valOrder = << >>
    /\ \A w \in WaitIds : queriedOn[w] = {}

\* Every node of the fleet was seen Committed for the subnet transaction and
\* for one registration transaction per fleet node, then Validating, then
\* bootstrapped.
AllObserved ==
    /\ allNodes # {}
    /\ confirmed[SubnetTx] = allNodes
    /\ Range(valOrder) = allNodes
    /\ \A m \in allNodes : confirmed[ValTx(m)] = allNodes
    /\ confirmed[ValidatingCk] = allNodes
    /\ confirmed[BootstrapCk] = allNodes

\* SetupSubnet returns nil only when every node of the fleet was observed
\* Committed for the subnet creation and for every validator registration,
\* and Validating and then bootstrapped for the new chain.
SuccessOnlyWhenAllObserved ==
    /\ ret.out = "nil" => AllObserved
    /\ ret.out = "error" => ~AllObserved
    /\ queriedOn[BootstrapCk] # {} => confirmed[ValidatingCk] = allNodes

\* C1: SetupSubnet returns nil only when every node was observed Committed
\* for the subnet creation and every registration, Validating and then
\* bootstrapped; every other run that ends returns an error.
C1_SuccessOrError ==
    /\ ret.out = "nil" => AllObserved
    /\ (pc = "done" /\ ~AllObserved) => ret.out = "error"

\* C2: a fleet-wide wait returns nil exactly when every node's worker saw the
\* success value; a wait with one node that did not returns an error, however
\* many of the others succeeded.
C2_FanOutCompleteness ==
    [][ (pc \in FleetWaitPcs /\ pc' # pc)
          => /\ (ret'.out # "error") <=> (confirmed[cur] = allNodes)
             /\ (ret'.out = "error") <=> (\E n \in allNodes : wpos[n] \in {"errQuery", "errCtx"})
             /\ \A n \in allNodes : wpos[n] = "nil" <=> n \in confirmed[cur] ]_vars

C2_Witness ==
    /\ pc = "done"
    /\ ret.out = "error"
    /\ ret.stage = StageValidating
    /\ ret.err = "errQuery"
    /\ Cardinality(allNodes) >= 2
    /\ Cardinality(confirmed[ValidatingCk]) = Cardinality(allNodes) - 1

Occurrences(seq, x) == Cardinality({i \in 1..Len(seq) : seq[i] = x})

\* C3: CreateSubnet and CreateBlockchain are submitted at most once and
\* AddSubnetValidator at most once per fleet node; a handle is queried only
\* after its submission; a step that issues a status query submits nothing.
C3_ExactlyOnceSubmission ==
    /\ [](/\ calls["CreateSubnet"] <= 1
          /\ calls["CreateBlockchain"] <= 1
          /\ \A n \in Nodes : Occurrences(valOrder, n) <= 1
          /\ Range(valOrder) \subseteq allNodes
          /\ queriedOn[SubnetTx] # {} => calls["CreateSubnet"] = 1
          /\ queriedOn[ChainTx] # {} => calls["CreateBlockchain"] = 1
          /\ \A n \in Nodes : queriedOn[ValTx(n)] # {} => Occurrences(valOrder, n) = 1)
    /\ [][ /\ queriedOn' # queriedOn => (calls' = calls /\ valOrder' = valOrder)
           /\ calls'["CreateSubnet"] # calls["CreateSubnet"] => queriedOn[SubnetTx] = {}
           /\ calls'["CreateBlockchain"] # calls["CreateBlockchain"] => queriedOn[ChainTx] = {}
           /\ valOrder' # valOrder => queriedOn[ValTx(valOrder'[Len(valOrder')])] = {} ]_vars

C3_Witness ==
    /\ cur = ChainTx
    /\ calls["CreateSubnet"] = 1
    /\ calls["CreateBlockchain"] = 1
    /\ Len(valOrder) >= 2
    /\ polls[txNode] >= 2

\* C4: registrations are sequential: every registration but the last one
\* submitted is Committed on the whole fleet, so at most one is submitted and
\* not yet confirmed fleet-wide; a transaction is sent only when none is queried
\* any more; when addAllAsValidators returns nil it has sent exactly one
\* registration per fleet node.
C4_SequentialRegistration ==
    /\ [](/\ \A k \in 1..(Len(valOrder) - 1) : confirmed[ValTx(valOrder[k])] = allNodes
          /\ Cardinality({k \in 1..Len(valOrder) : confirmed[ValTx(valOrder[k])] # allNodes}) <= 1
          /\ (\E i \in 1..Len(returned) : returned[i] = <<StageValidators, "ok">>)
                => /\ Len(valOrder) = Cardinality(allNodes)
                   /\ Range(valOrder) = allNodes
                   /\ \A m \in allNodes : confirmed[ValTx(m)] = allNodes)
    /\ [][ valOrder' # valOrder
             => /\ Len(valOrder') = Len(valOrder) + 1
                /\ \A n \in allNodes : wpos[n] \notin {"select", "query"}
                /\ \A k \in 1..Len(valOrder) : confirmed[ValTx(valOrder[k])] = allNodes ]_vars

C4_Witness ==
    /\ pc = "validatorWait"
    /\ Len(valOrder) = 2
    /\ confirmed[ValTx(valOrder[1])] = allNodes
    /\ \E n \in allNodes : wpos[n] = "query" /\ polls[n] = 1

\* C5: in ensureBootstrapped a query error never ends a worker nor the wait:
\* the wait fails only with the context's error, and it returns nil once every
\* node reported true, whatever errors came before; in ensureValidating one
\* worker's query error makes the wait, and SetupSubnet, return an error,
\* whatever the other nodes reported.
C5_TolerantVersusHard ==
    /\ cur = BootstrapCk
         => /\ gErr # "errQuery"
            /\ \A n \in Nodes : wpos[n] # "errQuery"
            /\ \A n \in bootErrs : wpos[n] \in {"select", "query", "nil", "errCtx"}
            /\ (pc = "done" /\ ret.out = "error") => (ret.err = "errCtx" /\ ctxDone)
            /\ (pc = "done" /\ confirmed[BootstrapCk] = allNodes) => ret = RetNil
    /\ (cur = ValidatingCk /\ \E n \in allNodes : wpos[n] = "errQuery")
         => /\ pc \in {"validatingWait", "done"}
            /\ gErr # "none"
            /\ pc = "done" => (ret.out = "error" /\ ret.stage = StageValidating)

C5_Witness ==
    /\ ret = RetNil
    /\ bootErrs # {}
    /\ \E n \in bootErrs : polls[n] >= 2 /\ n \in confirmed[BootstrapCk]

\* C6: once the wait's context is done, a worker issues at most the one query
\* it had already left its select for, and then returns: a worker at its
\* select returns the context's error without a query, and a worker that has
\* returned issues no query.
C6_CancellationPropagation ==
    /\ [](\A n \in Nodes : late[n] <= 1)
    /\ [][ \A n \in allNodes :
             /\ (pc \in FleetWaitPcs /\ wpos[n] = "select" /\ GroupCtxDone)
                  => (wpos'[n] \in {"select", "errCtx"} /\ polls'[n] = polls[n])
             /\ (wpos[n] = "query" /\ GroupCtxDone /\ wpos'[n] # wpos[n])
                  => (wpos'[n] \in Final \/ (wpos'[n] = "select" /\ GroupCtxDone'))
             /\ (wpos[n] \in Final /\ cur' = cur)
                  => (wpos'[n] = wpos[n] /\ polls'[n] = polls[n]) ]_vars

C6_Witness ==
    /\ pc = "done"
    /\ cancelWait = SubnetTx
    /\ ret = RetErr(StageSubnet, "errCtx")
    /\ \E n, m \in allNodes :
          /\ n # m
          /\ late[n] = 1 /\ polls[n] = 1 /\ wpos[n] = "errCtx"
          /\ polls[m] = 0 /\ wpos[m] = "errCtx"

\* C7 as claimed: a stage whose wait was in flight when the caller's context
\* was cancelled never returns nil, and when it returns it returns the
\* context's error.
C7_CancelledStageFailsWithCtxErr ==
    \A i \in 1..Len(returned) :
        (cancelInFlight /\ returned[i][1] = StageOfWait(cancelWait))
            => (returned[i][2] = "err" /\ ret.err = "errCtx")

\* C7 as amended: after the cancellation a worker at its select returns the
\* context's error without a query; a wait one of whose workers returned the
\* context's error returns an error, the context's unless a query error was
\* recorded first; every wait started after the cancellation fails with the
\* context's error before any query, so SetupSubnet returns nil after a
\* cancellation only if it arrived during the bootstrap wait, while every
\* worker still running was inside its query.
C7_CancellationFailsStage ==
    /\ [](/\ gErr = "errCtx" => ctxDone
          /\ (ret.out = "error" /\ ret.err = "errCtx") => ctxDone
          /\ (ctxDone /\ pc \in WaitPcs /\ cancelWait # cur)
                => /\ queriedOn[cur] = {}
                   /\ pc # "chainQuery"
                   /\ \A n \in allNodes : wpos[n] \in {"idle", "select", "errCtx"}
          /\ (ret = RetNil /\ ctxDone)
                => /\ cancelWait = BootstrapCk
                   /\ cancelInFlight => \E n \in allNodes : late[n] = 1)
    /\ [][ /\ \A n \in allNodes :
                (pc \in FleetWaitPcs /\ ctxDone /\ wpos[n] = "select" /\ wpos'[n] # "select")
                    => (wpos'[n] = "errCtx" /\ polls'[n] = polls[n])
           /\ (pc \in FleetWaitPcs /\ pc' # pc /\ \E n \in allNodes : wpos[n] = "errCtx")
                => /\ ret'.out = "error"
                   /\ ret'.stage = StageOfWait(cur)
                   /\ ret'.err = gErr
                   /\ (\A n \in allNodes : wpos[n] # "errQuery") => ret'.err = "errCtx"
           /\ (pc \in WaitPcs /\ pc' # pc /\ ctxDone /\ cancelWait # cur)
                => ret' = RetErr(StageOfWait(cur), "errCtx")
           /\ (pc = "chainSelect" /\ ctxDone /\ pc' # pc)
                => ret' = RetErr(StageChain, "errCtx") ]_vars

C7_Witness ==
    /\ pc = "done"
    /\ cancelWait = ValidatingCk
    /\ cancelInFlight
    /\ ret = RetErr(StageValidating, "errCtx")
    /\ \E n, m \in allNodes : wpos[n] = "nil" /\ wpos[m] = "errCtx"

StageIndex(stage) == CHOOSE i \in 1..Len(StageOrder) : StageOrder[i] = stage

\* Stages 1..k have all returned nil.
StagesOK(k) ==
    /\ Len(returned) >= k
    /\ \A i \in 1..k : returned[i] = <<StageOrder[i], "ok">>

\* The submissions and queries each stage has issued so far.
Issued(stage) ==
    CASE stage = StageNewArgs    -> calls["CreateUser"] + calls["ImportKey"] > 0
      [] stage = StageSubnet     -> calls["CreateSubnet"] > 0 \/ queriedOn[SubnetTx] # {}
      [] stage = StageList       -> calls["GetSubnets"] > 0
      [] stage = StageValidators -> valOrder # << >> \/ \E n \in Nodes : queriedOn[ValTx(n)] # {}
      [] stage = StageChain      -> calls["CreateBlockchain"] > 0 \/ queriedOn[ChainTx] # {}
      [] stage = StageValidating -> queriedOn[ValidatingCk] # {}
      [] stage = StageBootstrap  -> queriedOn[BootstrapCk] # {}

\* C8: the stages return in the order of StageOrder and only the last one
\* returned may have failed; a stage has issued a submission or a query only
\* if all stages before it returned nil; a stage returns only when none of
\* its workers is still running; once a stage has returned an error
\* SetupSubnet has returned that stage's error and nothing more is issued.
C8_StageOrdering ==
    /\ [](/\ Len(returned) <= Len(StageOrder)
          /\ \A i \in 1..Len(returned) :
                /\ returned[i][1] = StageOrder[i]
                /\ i < Len(returned) => returned[i][2] = "ok"
          /\ \A k \in 2..Len(StageOrder) : Issued(StageOrder[k]) => StagesOK(k - 1)
          /\ (\E n \in allNodes : wpos[n] \in {"select", "query"})
                => /\ pc \in FleetWaitPcs
                   /\ Len(returned) = StageIndex(StageOfWait(cur)) - 1
          /\ (returned # << >> /\ returned[Len(returned)][2] = "err")
                => /\ pc = "done"
                   /\ ret.out = "error"
                   /\ ret.stage = returned[Len(returned)][1]
          /\ ret.out = "nil" => StagesOK(Len(StageOrder)))
    /\ [][ /\ returned' # returned
              => /\ Len(returned') = Len(returned) + 1
                 /\ \A n \in allNodes : wpos[n] \notin {"select", "query"}
                 /\ pc \notin {"chainSelect", "chainQuery"} => UNCHANGED <<queriedOn>>
           /\ pc = "done" => UNCHANGED <<calls, valOrder, queriedOn, polls, ret, returned>> ]_vars

C8_Witness ==
    /\ pc = "done"
    /\ ret = RetErr(StageChain, "errQuery")
    /\ Len(returned) = 5
    /\ Cardinality(allNodes) >= 2
    /\ Issued(StageChain)
    /\ ~Issued(StageValidating)

\* C9: when GetNodeNames returns an empty list newArgs fails with the
\* empty-name-list error, and no call at all has been issued on a node: no
\* keystore user, no key import, no transaction, no query.
C9_EmptyNamesNoCalls ==
    /\ Len(netNames) = 0
         => /\ NoNodeCalls
            /\ pc \in {"start", "getNodeNames", "done"}
            /\ pc = "done" => ret \in {RetErr(StageNewArgs, "errNoNodeNames"),
                                       RetErr(StageNewArgs, "ErrStopped")}
    /\ ret.err = "errNoNodeNames" => (Len(netNames) = 0 /\ NoNodeCalls /\ pc = "done")

C9_Witness ==
    /\ ret = RetErr(StageNewArgs, "errNoNodeNames")
    /\ netNodes # {}
    /\ Len(netNames) = 0

\* C10: when vm.SubnetID does not parse, SetupSubnet returns the parse error
\* without having issued any call on the issuing node: no keystore user, no
\* key import, no transaction.
C10_MalformedSubnetIDNoCalls ==
    /\ ~subnetIDValid => ret.out # "nil"
    /\ ret = RetErr(StageNewArgs, "errSubnetID") => (~subnetIDValid /\ NoNodeCalls)

\* C11: when the name list is not empty and the fleet map is empty or lacks
\* the first listed name, newArgs returns an error, before any call on a node.
C11_MissingIssuingNodeIsError ==
    /\ ret.out # "panic"
    /\ (pc = "done" /\ Len(netNames) # 0 /\ netNames[1] \notin netNodes)
          => (ret.out = "error" /\ ret.stage = StageNewArgs /\ NoNodeCalls)

\* C12: when GetSubnets answers with a list that does not hold the new subnet,
\* the list-membership check fails SetupSubnet (in the list stage), so that no
\* validator registration is issued.
C12_AbsentSubnetFailsSetup ==
    [][ (pc = "listCheck" /\ listResp = "unlisted" /\ pc' # pc)
            => (pc' = "done" /\ ret'.out = "error" /\ ret'.stage = StageList) ]_vars

\* C13: an unreadable genesis fails the chain stage with the IO error, with no
\* CreateBlockchain submission and no status query of that stage (or of a later
\* one); a CreateBlockchain submission is always preceded by a successful read.
C13_UnreadableGenesisSubmitsNothing ==
    /\ genesis = "unreadable"
          => /\ pc = "done"
             /\ ret = RetErr(StageChain, "errIO")
             /\ calls["CreateBlockchain"] = 0
             /\ cur # ChainTx
             /\ \A w \in {ChainTx, ValidatingCk, BootstrapCk} : queriedOn[w] = {}
    /\ calls["CreateBlockchain"] > 0 => genesis = "read"
    /\ pc \in {"createBlockchain", "chainSelect", "chainQuery"} => genesis = "read"

C13_Witness ==
    /\ genesis = "unreadable"
    /\ ret = RetErr(StageChain, "errIO")
    /\ Len(valOrder) = NumNodes

\* Positions of SetupSubnet inside createBlockchain's poll loop.
ChainPolls == {"chainSelect", "chainQuery"}

\* C14: after CreateBlockchain is submitted, transaction status is queried on
\* the issuing node only; the poll loop is left only by Committed on the issuing
\* node (success), by a query error, or by the caller's context being done; a
\* pending answer is always followed, while the context is live, by another poll.
C14_IssuerLocalPolling ==
    [][ /\ queriedOn'[ChainTx] \subseteq {txNode'}
        /\ pc' \in ChainPolls => \A n \in Nodes \ {txNode'} : polls'[n] = 0
        /\ (pc \in ChainPolls /\ pc' \notin ChainPolls)
              => \/ /\ pc = "chainQuery"
                    /\ pc' = "ensureValidating"
                    /\ txNode \in confirmed'[ChainTx]
                 \/ /\ pc = "chainQuery"
                    /\ ret' = RetErr(StageChain, "errQuery")
                 \/ /\ pc = "chainSelect"
                    /\ ctxDone
                    /\ ret' = RetErr(StageChain, "errCtx")
        /\ (pc = "chainSelect" /\ ~ctxDone /\ pc' # pc) => pc' = "chainQuery"
        /\ (pc = "chainQuery" /\ pc' = "chainSelect") => polls'[txNode] = polls[txNode] + 1
      ]_vars

C14_Witness ==
    /\ pc = "ensureValidating"
    /\ Cardinality(allNodes) = NumNodes
    /\ polls[txNode] = MaxPolls
    /\ queriedOn[ChainTx] = {txNode}
    /\ confirmed[ChainTx] = {txNode}

\* The waits whose workers poll a transaction's status on every node.
TxWaitPcs == {"subnetWait", "validatorWait"}

\* C15: in a transaction wait, an answer other than Committed sends the worker
\* back to its sleep and records no error; a worker returns nil exactly on its
\* node's first Committed answer and issues no query after returning, so its
\* query count is the position of that answer; every query is issued from the
\* position a completed sleep leads to, one sleep per query.
C15_WorkerPollLoop ==
    [][ /\ pc \in TxWaitPcs =>
          \A n \in allNodes :
             /\ \A status \in TxStatuses \ {"Committed"} :
                   (wpos[n] = "query" /\ CountQuery(n) /\ TxStatusAnswer(n, status))
                      => (wpos'[n] = "select" /\ gErr' = gErr /\ n \notin confirmed'[cur])
             /\ (wpos[n] = "query" /\ CountQuery(n) /\ TxStatusAnswer(n, "Committed"))
                   => (wpos'[n] = "nil" /\ gErr' = gErr)
             /\ (wpos'[n] = "nil" /\ wpos[n] # "nil")
                   => /\ wpos[n] = "query"
                      /\ n \notin confirmed[cur]
                      /\ n \in confirmed'[cur]
                      /\ polls'[n] = polls[n] + 1
             /\ wpos[n] \in Final => (wpos'[n] = wpos[n] /\ polls'[n] = polls[n])
             /\ polls'[n] # polls[n]
                   => (wpos[n] = "query" /\ wpos'[n] # "query" /\ polls'[n] = polls[n] + 1)
             /\ (wpos'[n] = "query" /\ wpos[n] # "query")
                   => (wpos[n] = "select" /\ polls'[n] = polls[n])
             /\ (n \in confirmed[cur]) <=> (wpos[n] = "nil")
      ]_vars

C15_Witness ==
    /\ pc = "subnetWait"
    /\ Cardinality(allNodes) = NumNodes
    /\ \A n \in allNodes : wpos[n] = "nil"
    /\ polls[1] = 1
    /\ \A n \in allNodes \ {1} : polls[n] = MaxPolls

WaitPcOf(w) ==
    CASE w[1] = "subnet"     -> {"subnetWait"}
      [] w[1] = "val"        -> {"validatorWait"}
      [] w[1] = "chain"      -> ChainPolls
      [] w[1] = "validating" -> {"validatingWait"}
      [] w[1] = "bootstrap"  -> {"bootstrapWait"}
      [] OTHER               -> {}

WorkerRunning(n) == wpos[n] \in {"select", "query"}

\* C17: a fleet-wide wait returns, with success or with an error, only when no
\* worker of it is still running; a running worker belongs to the wait in
\* progress; a status query is only ever issued for the wait in progress.
C17_WorkersNeverOutliveWait ==
    [][ /\ (pc \in FleetWaitPcs /\ pc' # pc)
              => /\ \A n \in Nodes : ~WorkerRunning(n)
                 /\ wpos' = wpos
        /\ (\E n \in Nodes : WorkerRunning(n))
              => (pc \in FleetWaitPcs /\ pc \in WaitPcOf(cur))
        /\ \A w \in WaitIds :
              queriedOn'[w] # queriedOn[w] => (w = cur /\ pc \in WaitPcOf(w))
        /\ pc \in FleetWaitPcs
              => \A n \in Nodes : polls'[n] # polls[n] => (WorkerRunning(n) /\ n \in allNodes)
      ]_vars

C17_Witness ==
    /\ pc = "done"
    /\ ret = RetErr(StageValidating, "errQuery")
    /\ Cardinality(allNodes) = NumNodes
    /\ \A n \in allNodes : wpos[n] \in Final
    /\ \E n \in allNodes : wpos[n] = "errCtx"
    /\ \E n \in allNodes : polls[n] = MaxPolls

\* C18: the first error a worker returns is recorded and never replaced; once
\* one is recorded every sibling at its select returns the cancellation error
\* without another query; the wait returns the recorded error whatever the
\* siblings returned; the cancellation error is recorded, and returned, only
\* when the caller's context is done.
C18_FirstErrorWins ==
    [][ /\ pc \in FleetWaitPcs =>
          /\ gErr # "none" => gErr' = gErr
          /\ (gErr = "none" /\ gErr' # "none")
                => \E n \in allNodes : WorkerRunning(n) /\ wpos'[n] = gErr'
          /\ \A n \in allNodes :
                (gErr # "none" /\ wpos[n] = "select" /\ wpos'[n] # "select")
                   => (wpos'[n] = "errCtx" /\ polls' = polls)
          /\ gErr' = "errCtx" => ctxDone
          /\ (pc' # pc /\ gErr # "none") => ret' = RetErr(StageOfWait(cur), gErr)
          /\ (pc' # pc /\ ~ctxDone /\ \E n \in allNodes : wpos[n] = "errQuery")
                => ret' = RetErr(StageOfWait(cur), "errQuery")
      ]_vars

C18_Witness ==
    /\ pc = "done"
    /\ ~ctxDone
    /\ ret = RetErr(StageSubnet, "errQuery")
    /\ \E n \in allNodes : wpos[n] = "errQuery"
    /\ \E n \in allNodes : wpos[n] = "errCtx" /\ polls[n] = 1

\* The name list is not empty and the node it names first is in the fleet map.
IssuerKnown == Len(netNames) # 0 /\ netNames[1] \in netNodes

\* C19 as stated: for a non-empty fleet (read as: a fleet that was obtained and
\* whose issuing node is known, with the keystore and list calls answered),
\* with ctx never cancelled, every submission accepted, no status query failing
\* and the nodes converging, SetupSubnet does not end otherwise than by success.
C19_ConvergenceGivesSuccess ==
    (pc = "done" /\ IssuerKnown
       /\ ret.err \notin {"ErrStopped", "errCreateUser", "errImportKey", "errList"})
          => ret = RetNil

\* GetAllNodes, GetNodeNames, CreateUser, ImportKey, GetSubnets and the read of
\* the genesis file all succeed.
CallsSucceed ==
    ret.err \notin {"ErrStopped", "errCreateUser", "errImportKey", "errList", "errIO"}

\* C19 (amended): with, besides, a SubnetID that parses, a readable genesis and
\* the other calls succeeding, SetupSubnet eventually returns success when the
\* issuing node is known; when the name list names first a node that is not in
\* the fleet map, SetupSubnet ends by the nil dereference instead.
C19_Liveness ==
    /\ (IssuerKnown /\ subnetIDValid /\ []CallsSucceed) => <>(ret = RetNil)
    /\ (Len(netNames) # 0 /\ ~IssuerKnown /\ []CallsSucceed) => <>(ret.out = "panic")

C19_Witness ==
    /\ ret = RetNil
    /\ Cardinality(allNodes) = NumNodes
    /\ \A n \in allNodes : polls[n] = MaxPolls
    /\ bootErrs # {}
    /\ genesis = "read"

\* C20: when SetupSubnet is called with ctx already done, newArgs still runs
\* (keystore user, key import) and the create-subnet transaction is submitted,
\* once; if accepted, its wait fails with ctx's error without a single status
\* query; no GetSubnets, no validator registration and no chain creation is
\* issued; SetupSubnet never succeeds; the submission stays on record.
C20_SubmissionNotGatedOnCtx ==
    ctxDoneAtCall =>
       /\ ctxDone
       /\ pc \in {"start", "getNodeNames", "createUser", "importKey", "parseSubnetID",
                  "createSubnet", "subnetWait", "done"}
       /\ \A w \in WaitIds : queriedOn[w] = {}
       /\ \A n \in Nodes : polls[n] = 0
       /\ calls["GetSubnets"] = 0 /\ valOrder = << >> /\ calls["CreateBlockchain"] = 0
       /\ ret.out # "nil"
       /\ (pc = "subnetWait" \/ ret.stage = StageSubnet)
             => (calls["CreateUser"] = 1 /\ calls["ImportKey"] = 1 /\ calls["CreateSubnet"] = 1)
       /\ (pc = "done" /\ StagesOK(1)) => ret.stage = StageSubnet
       /\ (ret.stage = StageSubnet /\ ret.err # "errSubmit")
             => (ret = RetErr(StageSubnet, "errCtx") /\ \A n \in allNodes : wpos[n] = "errCtx")

C20_Witness ==
    /\ ctxDoneAtCall
    /\ ret = RetErr(StageSubnet, "errCtx")
    /\ calls["CreateSubnet"] = 1
    /\ Cardinality(allNodes) = NumNodes
    /\ \A n \in allNodes : wpos[n] = "errCtx" /\ polls[n] = 0

====
